---- MODULE Spec2Model ----
(***************************************************************************)
(* Model of src/common/schedulers/slurm_commands.py: the node-range        *)
(* batcher, update_nodes and its policy wrappers, the partition updates    *)
(* and the partition-nodelist mapping singleton.                           *)
(*                                                                         *)
(* A Python str is a sequence of one-character strings; a Python list of   *)
(* str is a sequence of such sequences.  An argument that may be None, a   *)
(* str or a list is a record [kind |-> "none" | "str" | "list", val].      *)
(***************************************************************************)
EXTENDS Integers, Sequences, FiniteSets, TLC

VARIABLES
    top,    \* the operation called by the client, "none" before any call
    args,   \* the arguments of that call
    cmds,   \* the commands handed to run_command by that call, in order
    un,     \* the frame of update_nodes
    spd,    \* the frame of set_nodes_power_down (retry decorator included)
    source,   \* the content of the partition-nodelist mapping file
    instance, \* PartitionNodelistMapping._instance is not None
    mapping,  \* partition_nodelist_mapping of the instance
    reads,    \* how often the file was opened since the last reset()
    calls,    \* how many accessor calls were made since the last reset()
    ret,      \* the outcome of the last accessor call
    up,     \* the frame of update_partitions
    uap,    \* the frame of update_all_partitions
    bn,     \* a call of _batch_node_info: its arguments and its result
    rpd,    \* the frame of resume_powering_down_nodes
    pn      \* a call of _parse_nodes_info: its argument and its result

nodeVars == <<top, args, cmds, un, spd>>
cacheVars == <<source, instance, mapping, reads, calls, ret>>
partVars == <<up, uap>>
queryVars == <<rpd, pn>>
vars == <<nodeVars, cacheVars, partVars, bn, queryVars>>

----------------------------------------------------------------------------
(* Bounds of the model *)

\* the most tokens a node, address or hostname argument holds
MaxTokens == 5

\* the most accessor calls made on the mapping between two reset()
MaxCalls == 4

\* the largest batch_size _batch_node_info is called with
MaxBatchSize == 3

\* the most records a node dump holds
MaxRecords == 3

\* update_nodes passes batch_size=100 to _batch_node_info; the model runs the
\* same loop with a batch of this many tokens
UpdateBatchSize == 2

----------------------------------------------------------------------------
(* Python values *)

None == [kind |-> "none", val |-> <<>>]
Str(s) == [kind |-> "str", val |-> s]
List(l) == [kind |-> "list", val |-> l]

\* bool(x) of None, a str or a list
Truthy(x) == x.kind # "none" /\ Len(x.val) > 0

RECURSIVE Join(_, _)
\* sep.join(toks)
Join(toks, sep) ==
    IF Len(toks) = 0 THEN <<>>
    ELSE IF Len(toks) = 1 THEN toks[1]
    ELSE toks[1] \o <<sep>> \o Join(Tail(toks), sep)

RECURSIVE Concat(_)
\* the concatenation of a sequence of sequences
Concat(ss) == IF Len(ss) = 0 THEN <<>> ELSE ss[1] \o Concat(Tail(ss))

RECURSIVE SplitFrom(_, _, _)
SplitFrom(s, i, cur) ==
    IF i > Len(s) THEN <<cur>>
    ELSE IF s[i] = "," /\ i > 1 /\ s[i - 1] = "]"
         THEN <<cur>> \o SplitFrom(s, i + 1, <<>>)
         ELSE SplitFrom(s, i + 1, Append(cur, s[i]))

RECURSIVE SplitAtCommas(_, _, _)
SplitAtCommas(s, i, cur) ==
    IF i > Len(s) THEN <<cur>>
    ELSE IF s[i] = ","
         THEN <<cur>> \o SplitAtCommas(s, i + 1, <<>>)
         ELSE SplitAtCommas(s, i + 1, Append(cur, s[i]))

\* re.split(",", s): split at every comma
re_split_every_comma(s) == SplitAtCommas(s, 1, <<>>)

\* re.split("(?<=]),", s): split at every comma that follows a "]"
re_split(s) == SplitFrom(s, 1, <<>>)

----------------------------------------------------------------------------
(* Node range tokens *)

Digits == <<"1", "2", "3", "4", "5", "6", "7", "8", "9">>

\* the i-th token: n[i] with bracketed TRUE, ni otherwise
Token(i, bracketed) ==
    IF bracketed THEN <<"n", "[", Digits[i], "]">> ELSE <<"n", Digits[i]>>

\* a token the argument validator rejects
UnsafeToken == <<"n", ";", "]">>

\* n tokens, the k-th one unsafe (k = 0: none)
TokList(n, k, bracketed) ==
    [i \in 1..n |-> IF i = k THEN UnsafeToken ELSE Token(i, bracketed)]

----------------------------------------------------------------------------
(* common.utils, used through its interface *)

\* the characters validate_subprocess_argument rejects
ForbiddenChars == {";"}

\* validate_subprocess_argument(s) returns (TRUE) or raises (FALSE)
validate_subprocess_argument(s) == \A i \in 1..Len(s) : s[i] \notin ForbiddenChars

\* run_command(command, raise_on_error): TRUE when the call raises, which it
\* does on a failed command unless raise_on_error is off
run_command(ok, raise_on_error) == ~ok /\ raise_on_error

\* grouper(seq, n): consecutive chunks of n elements, the last one shorter
grouper(seq, n) ==
    [g \in 1..((Len(seq) + n - 1) \div n) |->
        SubSeq(seq, (g - 1) * n + 1, IF g * n < Len(seq) THEN g * n ELSE Len(seq))]

----------------------------------------------------------------------------
(* PartitionNodelistMapping *)

\* partition names and the node lists the mapping file gives them
P1 == <<"p", "1">>
P10 == <<"p", "1", "0">>
Q == <<"q">>

NodelistExprs == {<<"n", "[", "1", "]">>, <<"n", "[", "1", "-", "2", "]">>}

\* an item of the mapping file: (partition, nodelist)
Items == {<<p, l>> : p \in {P1, P10, Q}, l \in NodelistExprs}

\* a mapping is the sequence of its items, in the order of the file
Mappings ==
    {<<>>}
    \cup {<<a>> : a \in Items}
    \cup {m \in {<<a, b>> : a \in Items, b \in Items} : m[1][1] # m[2][1]}

\* the file is missing, is not JSON, or holds a mapping
Sources ==
    {[kind |-> "missing", val |-> <<>>], [kind |-> "malformed", val |-> <<>>]}
    \cup {[kind |-> "json", val |-> m] : m \in Mappings}

NoRet == [status |-> "none", acc |-> "none", val |-> <<>>]

\* __init__ and the class attribute _instance, lines 84-87
InitCache ==
    /\ instance = FALSE
    /\ mapping = <<>>
    /\ reads = 0
    /\ calls = 0
    /\ ret = NoRet

\* open() and json.load(), lines 96-97, with a fallback to an empty mapping
LoadFile_fallback(src) ==
    IF src.kind = "json" THEN [raised |-> FALSE, val |-> src.val]
    ELSE [raised |-> FALSE, val |-> <<>>]

\* open() and json.load(), lines 96-97: a missing file and a malformed one raise
LoadFile(src) ==
    IF src.kind = "json" THEN [raised |-> FALSE, val |-> src.val]
    ELSE [raised |-> TRUE, val |-> <<>>]

\* `if not self.partition_nodelist_mapping`, line 91
NeedsLoad(m) == Len(m) = 0

\* PartitionNodelistMapping.instance().get_partition_nodelist_mapping() on the
\* singleton in state (inst, m): whether it raises, what it returns, the
\* mapping it leaves in the instance and whether it opened the file
get_partition_nodelist_mapping(inst, m, src) ==
    LET cur == IF inst THEN m ELSE <<>>
        loaded == LoadFile(src)
    IN  IF ~NeedsLoad(cur)
        THEN [raised |-> FALSE, val |-> cur, mapping |-> cur, read |-> FALSE]
        ELSE IF loaded.raised
        THEN [raised |-> TRUE, val |-> <<>>, mapping |-> cur, read |-> TRUE]
        ELSE [raised |-> FALSE, val |-> loaded.val, mapping |-> loaded.val, read |-> TRUE]

\* list(mapping.keys())
Keys(m) == [i \in 1..Len(m) |-> m[i][1]]

\* the effect of an accessor call on the singleton
Access(r, acc, value) ==
    /\ instance' = TRUE
    /\ mapping' = r.mapping
    /\ reads' = IF r.read THEN reads + 1 ELSE reads
    /\ calls' = calls + 1
    /\ ret' = IF r.raised THEN [status |-> "raised", acc |-> acc, val |-> <<>>]
              ELSE [status |-> "returned", acc |-> acc, val |-> value]

\* a client calls instance().get_partition_nodelist_mapping()
Call_get_partition_nodelist_mapping ==
    /\ calls < MaxCalls
    /\ LET r == get_partition_nodelist_mapping(instance, mapping, source)
       IN  Access(r, "get_partition_nodelist_mapping", r.val)
    /\ UNCHANGED <<source, nodeVars, partVars, bn, queryVars>>

\* a client calls instance().get_partitions(), lines 100-102
Call_get_partitions ==
    /\ calls < MaxCalls
    /\ LET r == get_partition_nodelist_mapping(instance, mapping, source)
       IN  Access(r, "get_partitions", Keys(r.val))
    /\ UNCHANGED <<source, nodeVars, partVars, bn, queryVars>>

\* PartitionNodelistMapping.reset(), lines 111-114
Call_reset ==
    /\ instance' = FALSE
    /\ mapping' = <<>>
    /\ reads' = 0
    /\ calls' = 0
    /\ ret' = NoRet
    /\ UNCHANGED <<source, nodeVars, partVars, bn, queryVars>>

----------------------------------------------------------------------------
(* The node range batcher *)

Tokens(attribute) ==
    IF attribute.kind = "str" THEN re_split(attribute.val) ELSE attribute.val

\* `expected_length and len(attribute) != expected_length`;
\* expected_length is None (-1 here) or a length
LengthMismatch(toks, expected_length) ==
    expected_length # -1 /\ expected_length # 0 /\ Len(toks) # expected_length

\* _batch_attribute joining the tokens of a batch with a blank
batch_attribute_blank(attribute, batch_size, expected_length) ==
    LET toks == Tokens(attribute)
        groups == grouper(toks, batch_size)
    IN  IF LengthMismatch(toks, expected_length)
        THEN [raised |-> TRUE, batches |-> <<>>]
        ELSE [raised |-> FALSE,
              batches |-> [g \in 1..Len(groups) |-> Str(Join(groups[g], " "))]]

\* _batch_attribute: [raised, batches]
batch_attribute(attribute, batch_size, expected_length) ==
    LET toks == Tokens(attribute)
        groups == grouper(toks, batch_size)
    IN  IF LengthMismatch(toks, expected_length)
        THEN [raised |-> TRUE, batches |-> <<>>]
        ELSE [raised |-> FALSE,
              batches |-> [g \in 1..Len(groups) |-> Str(Join(groups[g], ","))]]

Min(a, b) == IF a < b THEN a ELSE b

\* zip(a, b, c) pairing the batches of a with those of b in reverse order
zip3_reversed(a, b, c) ==
    [i \in 1..Min(Len(a), Min(Len(b), Len(c))) |->
        [nodenames |-> a[i], addrs |-> b[Len(b) + 1 - i], hostnames |-> c[i]]]

\* zip(a, b, c) as a sequence of records
zip3(a, b, c) ==
    [i \in 1..Min(Len(a), Min(Len(b), Len(c))) |->
        [nodenames |-> a[i], addrs |-> b[i], hostnames |-> c[i]]]

\* _batch_node_info: [raised, batches]
batch_node_info(nodenames, nodeaddrs, nodehostnames, batch_size) ==
    LET names == List(Tokens(nodenames))
        nodename_batch == batch_attribute(names, batch_size, -1).batches
        nones == [i \in 1..Len(nodename_batch) |-> None]
        a == IF Truthy(nodeaddrs)
             THEN batch_attribute(nodeaddrs, batch_size, Len(names.val))
             ELSE [raised |-> FALSE, batches |-> nones]
        h == IF Truthy(nodehostnames)
             THEN batch_attribute(nodehostnames, batch_size, Len(names.val))
             ELSE [raised |-> FALSE, batches |-> nones]
    IN  IF a.raised \/ h.raised
        THEN [raised |-> TRUE, batches |-> <<>>]
        ELSE [raised |-> FALSE, batches |-> zip3(nodename_batch, a.batches, h.batches)]

----------------------------------------------------------------------------
(* update_nodes *)

IdleFrame ==
    [status |-> "idle", err |-> "none", batches |-> <<>>, next |-> 1,
     state |-> None, reason |-> None, raise_on_error |-> TRUE, caller |-> "none"]

\* the frame when the call has ended with an exception
Raised(frame, err) == [frame EXCEPT !.status = "raised", !.err = err]

\* lines 153-161: batch the arguments, then validate state and reason; the
\* result is the frame on entry to the loop, or the frame of the exception
update_nodes(nodes, nodeaddrs, nodehostnames, state, reason, raise_on_error, caller) ==
    LET batched_node_info == batch_node_info(nodes, nodeaddrs, nodehostnames, UpdateBatchSize)
        frame == [status |-> "running", err |-> "none",
                  batches |-> batched_node_info.batches, next |-> 1,
                  state |-> IF Truthy(state) THEN state ELSE None,
                  reason |-> IF Truthy(reason) THEN reason ELSE None,
                  raise_on_error |-> raise_on_error, caller |-> caller]
    IN  IF batched_node_info.raised THEN Raised(frame, "AlignmentError")
        ELSE IF Truthy(state) /\ ~validate_subprocess_argument(state.val)
             THEN Raised(frame, "InjectionRisk")
        ELSE IF Truthy(reason) /\ ~validate_subprocess_argument(reason.val)
             THEN Raised(frame, "InjectionRisk")
        ELSE IF Len(frame.batches) = 0 THEN [frame EXCEPT !.status = "returned"]
        ELSE frame

\* BatchValid without the validation of the addresses
BatchValid_no_addrs(b) ==
    /\ validate_subprocess_argument(b.nodenames.val)
    /\ Truthy(b.hostnames) => validate_subprocess_argument(b.hostnames.val)

\* lines 163-170: the validation of one batch's expressions
BatchValid(b) ==
    /\ validate_subprocess_argument(b.nodenames.val)
    /\ Truthy(b.addrs) => validate_subprocess_argument(b.addrs.val)
    /\ Truthy(b.hostnames) => validate_subprocess_argument(b.hostnames.val)

\* lines 155-174: the command of one batch, and whether it succeeded
UpdateCommand(frame, b, ok) ==
    [cmd |-> "update_nodes", state |-> frame.state, reason |-> frame.reason,
     nodename |-> b.nodenames,
     nodeaddr |-> IF Truthy(b.addrs) THEN b.addrs ELSE None,
     nodehostname |-> IF Truthy(b.hostnames) THEN b.hostnames ELSE None,
     batch |-> frame.next, ok |-> ok]

\* AfterCommand with a failed command never raising
AfterCommand_swallow(frame, ok) ==
    IF frame.next = Len(frame.batches) THEN [frame EXCEPT !.status = "returned"]
    ELSE [frame EXCEPT !.next = @ + 1]

\* AfterCommand with a failed command always raising
AfterCommand_raise(frame, ok) ==
    IF ~ok THEN Raised(frame, "CommandExecutionError")
    ELSE IF frame.next = Len(frame.batches) THEN [frame EXCEPT !.status = "returned"]
    ELSE [frame EXCEPT !.next = @ + 1]

\* lines 162-174 after the command of a batch: run_command is given the
\* caller's raise_on_error, an exception leaves the loop and the function,
\* otherwise the loop goes on to the next batch
AfterCommand(frame, ok) ==
    IF run_command(ok, frame.raise_on_error) THEN Raised(frame, "CommandExecutionError")
    ELSE IF frame.next = Len(frame.batches) THEN [frame EXCEPT !.status = "returned"]
    ELSE [frame EXCEPT !.next = @ + 1]

\* one iteration of the loop of lines 162-174
update_nodes_loop ==
    /\ un.status = "running"
    /\ LET b == un.batches[un.next]
       IN  IF ~BatchValid(b)
           THEN /\ un' = Raised(un, "InjectionRisk")
                /\ UNCHANGED cmds
           ELSE \E ok \in BOOLEAN :
                /\ cmds' = Append(cmds, UpdateCommand(un, b, ok))
                /\ un' = AfterCommand(un, ok)
    /\ UNCHANGED <<top, args, spd, cacheVars, partVars, bn, queryVars>>

\* reset_nodes, lines 266-270
reset_nodes(nodes, state, reason, raise_on_error, caller) ==
    update_nodes(nodes, nodes, nodes, state, reason, raise_on_error, caller)

----------------------------------------------------------------------------
(* set_nodes_idle *)

RESUME == Str(<<"r", "e", "s", "u", "m", "e">>)

\* set_nodes_idle passing raise_on_error=True
set_nodes_idle_raise(nodes, reason, reset_node_addrs_hostname) ==
    IF reset_node_addrs_hostname
    THEN reset_nodes(nodes, RESUME, reason, TRUE, "set_nodes_idle")
    ELSE update_nodes(nodes, None, None, RESUME, reason, TRUE, "set_nodes_idle")

\* set_nodes_idle, lines 273-288: the frame of update_nodes it enters
set_nodes_idle(nodes, reason, reset_node_addrs_hostname) ==
    IF reset_node_addrs_hostname
    THEN reset_nodes(nodes, RESUME, reason, FALSE, "set_nodes_idle")
    ELSE update_nodes(nodes, None, None, RESUME, reason, FALSE, "set_nodes_idle")

----------------------------------------------------------------------------
(* set_nodes_power_down and its retry decorator *)

\* @retry(stop_max_attempt_number=3, ...)
stop_max_attempt_number == 3

POWER_DOWN_FORCE == Str(<<"p", "o", "w", "e", "r", "_", "d", "o", "w", "n", "_", "f", "o", "r", "c", "e">>)

IdlePowerDown ==
    [status |-> "idle", err |-> "none", attempt |-> 0, nodes |-> None,
     reason |-> None, caller |-> "none"]

\* the first attempt of set_nodes_power_down(nodes, reason)
set_nodes_power_down(nodes, reason, caller) ==
    [status |-> "running", err |-> "none", attempt |-> 1, nodes |-> nodes,
     reason |-> reason, caller |-> caller]

\* the body of set_nodes_power_down going on from the batch that failed
power_down_body_resume(frame) ==
    LET entered == reset_nodes(frame.nodes, POWER_DOWN_FORCE, frame.reason, TRUE,
                               "set_nodes_power_down")
    IN  IF un.status = "raised" /\ entered.status = "running"
        THEN [entered EXCEPT !.next = un.next]
        ELSE entered

\* the body of set_nodes_power_down, line 263
power_down_body(frame) ==
    reset_nodes(frame.nodes, POWER_DOWN_FORCE, frame.reason, TRUE, "set_nodes_power_down")

\* ShouldStop that lets one more attempt through
ShouldStop_late(attempt) == attempt > stop_max_attempt_number

\* the retry decorator's decision when an attempt raised
ShouldStop(attempt) == attempt >= stop_max_attempt_number

\* the retry decorator, when an attempt of the body has returned or raised
retry_set_nodes_power_down ==
    /\ spd.status = "running"
    /\ un.caller = "set_nodes_power_down"
    /\ un.status \in {"returned", "raised"}
    /\ IF un.status = "returned"
       THEN /\ spd' = [spd EXCEPT !.status = "returned"]
            /\ UNCHANGED un
       ELSE IF ShouldStop(spd.attempt)
       THEN /\ spd' = [spd EXCEPT !.status = "raised", !.err = un.err]
            /\ UNCHANGED un
       ELSE /\ spd' = [spd EXCEPT !.attempt = @ + 1]
            /\ un' = power_down_body(spd)
    /\ UNCHANGED <<top, args, cmds, cacheVars, uap, up, bn, queryVars>>

----------------------------------------------------------------------------
(* update_partitions *)

NoBatch == [status |-> "none"]

IdlePartitions ==
    [status |-> "idle", err |-> "none", partitions |-> <<>>, state |-> <<>>,
     next |-> 1, succeeded |-> <<>>, caller |-> "none"]

\* lines 177-180: the state is validated outside the try block; the result is
\* the frame on entry to the loop, or the frame of the exception
update_partitions(partitions, state, caller) ==
    LET frame == [status |-> "running", err |-> "none", partitions |-> partitions,
                  state |-> state, next |-> 1, succeeded |-> <<>>, caller |-> caller]
    IN  IF ~validate_subprocess_argument(state) THEN Raised(frame, "InjectionRisk")
        ELSE IF Len(partitions) = 0 THEN [frame EXCEPT !.status = "returned"]
        ELSE frame

\* AfterPartition without the try/except around the command
AfterPartition_raise(frame, succeeded) ==
    IF ~succeeded THEN Raised(frame, "CommandExecutionError")
    ELSE LET f == [frame EXCEPT !.next = @ + 1,
                                !.succeeded = Append(@, frame.partitions[frame.next])]
         IN  IF frame.next = Len(frame.partitions) THEN [f EXCEPT !.status = "returned"] ELSE f

\* lines 182-192 after the try block of one partition: the partition is
\* appended when nothing raised, an exception is logged, and the loop goes on
AfterPartition(frame, succeeded) ==
    LET f == [frame EXCEPT !.next = @ + 1,
                           !.succeeded = IF succeeded
                                         THEN Append(@, frame.partitions[frame.next])
                                         ELSE @]
    IN  IF frame.next = Len(frame.partitions) THEN [f EXCEPT !.status = "returned"] ELSE f

\* the command of line 186
PartitionCommand(partition, state, ok) ==
    [cmd |-> "update_partition", partition |-> partition, state |-> state, ok |-> ok]

\* one iteration of the loop of lines 181-190
update_partitions_loop ==
    /\ up.status = "running"
    /\ LET partition == up.partitions[up.next]
       IN  IF ~validate_subprocess_argument(partition)
           THEN /\ up' = AfterPartition(up, FALSE)
                /\ UNCHANGED cmds
           ELSE \E ok \in BOOLEAN :
                /\ cmds' = Append(cmds, PartitionCommand(partition, up.state, ok))
                /\ up' = AfterPartition(up, ~run_command(ok, TRUE))
    /\ UNCHANGED <<top, args, un, spd, uap, cacheVars, bn, queryVars>>

----------------------------------------------------------------------------
(* get_partitions_info *)

\* the members of PartitionStatus
UP == <<"U", "P">>
DOWN == <<"D", "O", "W", "N">>
INACTIVE == <<"I", "N", "A", "C", "T", "I", "V", "E">>
DRAIN == <<"D", "R", "A", "I", "N">>
PartitionStatusValues == {UP, DOWN, INACTIVE, DRAIN}

\* PartitionStatus(x) raises ValueError when x is no member
PartitionStatusRaises(x) == x \notin PartitionStatusValues

\* the nodes sinfo reports for a partition of the scheduler
PartitionNodes(name) ==
    IF name = P10 THEN Join(TokList(UpdateBatchSize + 1, 0, TRUE), ",")
    ELSE IF name = P1 THEN Token(1, TRUE)
    ELSE Token(2, TRUE)

IsPrefix(a, b) == Len(a) <= Len(b) /\ SubSeq(b, 1, Len(a)) = a

\* _get_partition_grep_filter and the grep it builds: with no owned partition
\* there is no filter, otherwise a line passes when it holds
\* PartitionName=<partition> for an owned partition
GrepFilter(partitions, name) ==
    Len(partitions) = 0 \/ \E i \in 1..Len(partitions) : IsPrefix(partitions[i], name)

\* the (name, state) pairs of lines 325-332, then the partitions of lines
\* 333-340.  sched is what the scheduler holds; fail_at is the command that
\* fails: 0 none, 1 the partition dump, j + 1 the node listing of the j-th
\* partition.  The result is [raised, val, queries].
get_partitions_info(partitions, sched, fail_at) ==
    LET partitions_info == SelectSeq(sched, LAMBDA p : GrepFilter(partitions, p.name))
        dump == [cmd |-> "show_partitions", filter |-> partitions, ok |-> fail_at # 1]
        \* the first partition whose node listing raises
        Fails(j) == fail_at = j + 1
                    \/ ~validate_subprocess_argument(partitions_info[j].name)
        bad == {j \in 1..Len(partitions_info) : Fails(j)}
        stop == IF bad = {} THEN Len(partitions_info) + 1
                ELSE CHOOSE j \in bad : \A k \in bad : j <= k
        listing(j) == [cmd |-> "sinfo", partition |-> partitions_info[j].name,
                       ok |-> fail_at # j + 1]
        asked == {j \in 1..Len(partitions_info) :
                    j <= stop /\ validate_subprocess_argument(partitions_info[j].name)}
    IN  IF fail_at = 1
        THEN [raised |-> TRUE, val |-> <<>>, queries |-> <<dump>>]
        ELSE [raised |-> bad # {},
              val |-> IF bad # {} THEN <<>>
                      ELSE [j \in 1..Len(partitions_info) |->
                              [name |-> partitions_info[j].name,
                               nodenames |-> PartitionNodes(partitions_info[j].name),
                               state |-> partitions_info[j].state]],
              queries |-> <<dump>> \o [j \in 1..Cardinality(asked) |-> listing(j)]]

----------------------------------------------------------------------------
(* update_all_partitions *)

STOPPING_CLUSTER ==
    Str(<<"s", "t", "o", "p", "p", "i", "n", "g", " ", "c", "l", "u", "s", "t", "e", "r">>)

IdleAll ==
    [status |-> "idle", result |-> FALSE, pc |-> "none", partitions |-> <<>>,
     next |-> 1, partition_to_update |-> <<>>, state |-> <<>>,
     reset_node_addrs_hostname |-> FALSE]

\* the handler of lines 210-212 without the return: the exception propagates
OnException_propagate(frame) == [frame EXCEPT !.status = "raised", !.pc = "done"]

\* lines 210-212: any exception is logged and the function returns False
OnException(frame) ==
    [frame EXCEPT !.status = "returned", !.result = FALSE, !.pc = "done"]

\* line 202 taking every partition as to be updated
StateDiffers_always(part_state, state) == TRUE

\* line 202
StateDiffers(part_state, state) == part_state # state

\* line 209
AllSucceeded(succeeded_partitions, partition_to_update) ==
    succeeded_partitions = partition_to_update

\* line 207, and the loop going on to the next partition
NextPartition(frame, append) ==
    [frame EXCEPT !.pc = "loop", !.next = @ + 1,
                  !.partition_to_update =
                      IF append THEN Append(@, frame.partitions[frame.next].name) ELSE @]

\* one iteration of the loop of lines 201-207, up to the call of
\* set_nodes_power_down when there is one
update_all_partitions_loop ==
    /\ uap.status = "running" /\ uap.pc = "loop"
    /\ uap.next <= Len(uap.partitions)
    /\ LET part == uap.partitions[uap.next]
       IN  IF PartitionStatusRaises(part.state) \/ PartitionStatusRaises(uap.state)
           THEN /\ uap' = OnException(uap)
                /\ UNCHANGED <<spd, un>>
           ELSE IF ~StateDiffers(part.state, uap.state)
           THEN /\ uap' = NextPartition(uap, FALSE)
                /\ UNCHANGED <<spd, un>>
           ELSE IF uap.reset_node_addrs_hostname
           THEN /\ uap' = [uap EXCEPT !.pc = "power_down"]
                /\ spd' = set_nodes_power_down(Str(part.nodenames), STOPPING_CLUSTER,
                                               "update_all_partitions")
                /\ un' = power_down_body(spd')
           ELSE /\ uap' = NextPartition(uap, TRUE)
                /\ UNCHANGED <<spd, un>>
    /\ UNCHANGED <<top, args, cmds, up, cacheVars, bn, queryVars>>

\* AfterPowerDown leaving out a partition whose power down raised
AfterPowerDown_skip(frame, raised) == NextPartition(frame, ~raised)

\* lines 206-207 once set_nodes_power_down is over: its exception leaves the
\* try block, otherwise the partition is one to update
AfterPowerDown(frame, raised) ==
    IF raised THEN OnException(frame) ELSE NextPartition(frame, TRUE)

\* set_nodes_power_down has returned or raised, line 206
update_all_partitions_powered_down ==
    /\ uap.status = "running" /\ uap.pc = "power_down"
    /\ spd.caller = "update_all_partitions"
    /\ spd.status \in {"returned", "raised"}
    /\ uap' = AfterPowerDown(uap, spd.status = "raised")
    /\ UNCHANGED <<top, args, cmds, un, spd, up, cacheVars, bn, queryVars>>

\* the loop is over: the call of update_partitions, line 208
update_all_partitions_update ==
    /\ uap.status = "running" /\ uap.pc = "loop"
    /\ uap.next > Len(uap.partitions)
    /\ uap' = [uap EXCEPT !.pc = "update"]
    /\ up' = update_partitions(uap.partition_to_update, uap.state, "update_all_partitions")
    /\ UNCHANGED <<top, args, cmds, un, spd, cacheVars, bn, queryVars>>

\* update_partitions has returned or raised, lines 208-209
update_all_partitions_return ==
    /\ uap.status = "running" /\ uap.pc = "update"
    /\ up.caller = "update_all_partitions"
    /\ up.status \in {"returned", "raised"}
    /\ uap' = IF up.status = "raised" THEN OnException(uap)
              ELSE [uap EXCEPT !.status = "returned", !.pc = "done",
                               !.result = AllSucceeded(up.succeeded, uap.partition_to_update)]
    /\ UNCHANGED <<top, args, cmds, un, spd, up, cacheVars, bn, queryVars>>

InitPartitions ==
    /\ up = IdlePartitions
    /\ uap = IdleAll

----------------------------------------------------------------------------
(* The arguments the client calls with *)

NodeInputs ==
    {List(TokList(n, k, TRUE)) : n \in 0..MaxTokens, k \in 0..MaxTokens}
    \cup {Str(Join(TokList(n, k, TRUE), ",")) : n \in 0..MaxTokens, k \in 0..MaxTokens}
    \cup {Str(Join(TokList(n, 0, FALSE), ",")) : n \in 1..MaxTokens}

AddrInputs ==
    {None}
    \cup {List(TokList(n, 0, TRUE)) : n \in 0..MaxTokens}
    \cup {List(TokList(n, n, TRUE)) : n \in 1..MaxTokens}

HostnameInputs ==
    {None}
    \cup {List(TokList(n, 0, TRUE)) : n \in 0..MaxTokens}
    \cup {Str(UnsafeToken)}

SafeText == Str(<<"d", "o", "w", "n">>)
UnsafeText == Str(<<"d", ";">>)
TextInputs == {None, SafeText, UnsafeText}

----------------------------------------------------------------------------
(* The calls of the client *)

NoArgs == [nodes |-> None]

Call_update_nodes ==
    /\ top = "none"
    /\ \E nodes \in NodeInputs, nodeaddrs \in AddrInputs, nodehostnames \in HostnameInputs,
          state \in TextInputs, reason \in TextInputs, raise_on_error \in BOOLEAN :
        /\ top' = "update_nodes"
        /\ args' = [nodes |-> nodes, nodeaddrs |-> nodeaddrs,
                    nodehostnames |-> nodehostnames, state |-> state,
                    reason |-> reason, raise_on_error |-> raise_on_error]
        /\ un' = update_nodes(nodes, nodeaddrs, nodehostnames, state, reason,
                              raise_on_error, "client")
    /\ cmds' = <<>>
    /\ UNCHANGED <<spd, cacheVars, partVars, bn, queryVars>>

\* an unsafe partition name, states no PartitionStatus holds or the validator rejects
UnsafeName == <<"q", ";">>
BogusState == <<"X">>
UnsafeState == <<"U", "P", ";">>

MaxPartitions == 2

PartitionNames == {P1, P10, Q}

\* what the scheduler holds: partitions of distinct names, each with a state
SchedPartitions ==
    {[name |-> n, state |-> st] : n \in PartitionNames, st \in {UP, INACTIVE, BogusState}}

RECURSIVE SeqsUpTo(_, _)
\* the sequences of at most n elements of S
SeqsUpTo(S, n) ==
    IF n = 0 THEN {<<>>}
    ELSE LET shorter == SeqsUpTo(S, n - 1)
         IN  shorter \cup {Append(q, x) : q \in {r \in shorter : Len(r) = n - 1}, x \in S}

DistinctNames(sched) ==
    \A i, j \in 1..Len(sched) : i # j => sched[i].name # sched[j].name

SchedulerStates == {q \in SeqsUpTo(SchedPartitions, MaxPartitions) : DistinctNames(q)}

\* the mapping files of the partition operations
PartitionSources ==
    {[kind |-> "missing", val |-> <<>>],
     [kind |-> "json", val |-> <<>>],
     [kind |-> "json", val |-> << <<P1, Token(1, TRUE)>> >>],
     [kind |-> "json", val |-> << <<P1, Token(1, TRUE)>>, <<Q, Token(2, TRUE)>> >>]}

Call_update_partitions ==
    /\ top = "none"
    /\ \E partitions \in SeqsUpTo({P1, Q, UnsafeName}, MaxPartitions + 1),
          state \in {INACTIVE, UP, UnsafeState} :
        /\ top' = "update_partitions"
        /\ args' = [partitions |-> partitions, state |-> state]
        /\ up' = update_partitions(partitions, state, "client")
    /\ cmds' = <<>>
    /\ UNCHANGED <<un, spd, uap, cacheVars, bn, queryVars>>

\* lines 195-200: the call, get_partitions_info included
Call_update_all_partitions ==
    /\ top = "none"
    /\ \E state \in {INACTIVE, UP, BogusState, UnsafeState},
          reset_node_addrs_hostname \in BOOLEAN,
          sched \in SchedulerStates, fail_at \in 0..(MaxPartitions + 1) :
        LET r == get_partition_nodelist_mapping(instance, mapping, source)
            info == get_partitions_info(Keys(r.val), sched, fail_at)
            frame == [status |-> "running", result |-> FALSE, pc |-> "loop",
                      partitions |-> IF r.raised THEN <<>> ELSE info.val, next |-> 1,
                      partition_to_update |-> <<>>, state |-> state,
                      reset_node_addrs_hostname |-> reset_node_addrs_hostname]
        IN  /\ fail_at <= Len(sched) + 1
            /\ top' = "update_all_partitions"
            /\ args' = [state |-> state,
                        reset_node_addrs_hostname |-> reset_node_addrs_hostname,
                        sched |-> sched, fail_at |-> fail_at]
            /\ Access(r, "get_partitions", Keys(r.val))
            /\ cmds' = IF r.raised THEN <<>> ELSE info.queries
            /\ uap' = IF r.raised \/ info.raised THEN OnException(frame) ELSE frame
    /\ UNCHANGED <<source, un, spd, up, bn, queryVars>>

Call_set_nodes_power_down ==
    /\ top = "none"
    /\ \E nodes \in NodeInputs, reason \in TextInputs :
        /\ top' = "set_nodes_power_down"
        /\ args' = [nodes |-> nodes, reason |-> reason]
        /\ spd' = set_nodes_power_down(nodes, reason, "client")
        /\ un' = power_down_body(spd')
    /\ cmds' = <<>>
    /\ UNCHANGED <<cacheVars, partVars, bn, queryVars>>

\* the client calls set_nodes_idle
Call_set_nodes_idle ==
    /\ top = "none"
    /\ \E nodes \in NodeInputs, reason \in TextInputs,
          reset_node_addrs_hostname \in BOOLEAN :
        /\ top' = "set_nodes_idle"
        /\ args' = [nodes |-> nodes, reason |-> reason,
                    reset_node_addrs_hostname |-> reset_node_addrs_hostname,
                    call |-> 1, before |-> 0]
        /\ un' = set_nodes_idle(nodes, reason, reset_node_addrs_hostname)
    /\ cmds' = <<>>
    /\ UNCHANGED <<spd, cacheVars, partVars, bn, queryVars>>

\* the client calls set_nodes_idle again with the same arguments once the
\* first call has returned; before is the number of commands of the first call
Call_set_nodes_idle_again ==
    /\ top = "set_nodes_idle"
    /\ args.call = 1
    /\ un.status = "returned"
    /\ args' = [args EXCEPT !.call = 2, !.before = Len(cmds)]
    /\ un' = set_nodes_idle(args.nodes, args.reason, args.reset_node_addrs_hostname)
    /\ UNCHANGED <<top, cmds, spd, cacheVars, partVars, bn, queryVars>>

----------------------------------------------------------------------------
(* resume_powering_down_nodes *)

POWERING_DOWN ==
    Str(<<"p", "o", "w", "e", "r", "i", "n", "g", "_", "d", "o", "w", "n">>)

IdleResume == [status |-> "idle", err |-> "none"]

\* the command of lines 376-385
NodeListing(partition_name, states, ok) ==
    [cmd |-> "sinfo_nodes", partition |-> partition_name, states |-> states, ok |-> ok]

\* _get_slurm_nodes answering an empty list when its command fails
get_slurm_nodes_quiet(states, r, ok, lines) ==
    LET partition_name == Join(Keys(r.val), ",")
        listing == NodeListing(partition_name, states, ok)
    IN  IF r.raised
        THEN [raised |-> TRUE, err |-> "OwnershipSourceError", val |-> <<>>, queries |-> <<>>]
        ELSE IF ~validate_subprocess_argument(partition_name)
        THEN [raised |-> TRUE, err |-> "InjectionRisk", val |-> <<>>, queries |-> <<>>]
        ELSE IF Truthy(states) /\ ~validate_subprocess_argument(states.val)
        THEN [raised |-> TRUE, err |-> "InjectionRisk", val |-> <<>>, queries |-> <<>>]
        ELSE [raised |-> FALSE, err |-> "none",
              val |-> IF ok THEN lines ELSE <<>>, queries |-> <<listing>>]

\* _get_slurm_nodes(states) with no partition_name, lines 375-385.  r is the
\* outcome of the mapping's accessor, ok whether the sinfo command succeeds and
\* lines the node names it prints, one per line.  The result is
\* [raised, err, val, queries].
get_slurm_nodes(states, r, ok, lines) ==
    LET partition_name == Join(Keys(r.val), ",")
        listing == NodeListing(partition_name, states, ok)
    IN  IF r.raised
        THEN [raised |-> TRUE, err |-> "OwnershipSourceError", val |-> <<>>, queries |-> <<>>]
        ELSE IF ~validate_subprocess_argument(partition_name)
        THEN [raised |-> TRUE, err |-> "InjectionRisk", val |-> <<>>, queries |-> <<>>]
        ELSE IF Truthy(states) /\ ~validate_subprocess_argument(states.val)
        THEN [raised |-> TRUE, err |-> "InjectionRisk", val |-> <<>>, queries |-> <<>>]
        ELSE IF ~ok
        THEN [raised |-> TRUE, err |-> "CommandExecutionError", val |-> <<>>,
              queries |-> <<listing>>]
        ELSE [raised |-> FALSE, err |-> "none", val |-> lines, queries |-> <<listing>>]

\* what sinfo prints: plain node names, the first one possibly unsafe
SinfoOutputs == {TokList(n, k, FALSE) : n \in 0..MaxTokens, k \in {0, 1}}

\* the client calls resume_powering_down_nodes, lines 352-358: the query, then
\* update_nodes up to its loop
Call_resume_powering_down_nodes ==
    /\ top = "none"
    /\ \E ok \in BOOLEAN, lines \in SinfoOutputs :
        LET r == get_partition_nodelist_mapping(instance, mapping, source)
            powering_down_nodes == get_slurm_nodes(POWERING_DOWN, r, ok, lines)
        IN  /\ top' = "resume_powering_down_nodes"
            /\ args' = [ok |-> ok, lines |-> lines]
            /\ Access(r, "get_partitions", Keys(r.val))
            /\ cmds' = powering_down_nodes.queries
            /\ IF powering_down_nodes.raised
               THEN /\ rpd' = [status |-> "raised", err |-> powering_down_nodes.err]
                    /\ UNCHANGED un
               ELSE /\ rpd' = [status |-> "running", err |-> "none"]
                    /\ un' = update_nodes(List(powering_down_nodes.val), None, None, RESUME,
                                          None, FALSE, "resume_powering_down_nodes")
    /\ UNCHANGED <<source, spd, partVars, bn, pn>>

\* update_nodes has returned or raised, line 358
resume_powering_down_nodes_return ==
    /\ rpd.status = "running"
    /\ un.caller = "resume_powering_down_nodes"
    /\ un.status \in {"returned", "raised"}
    /\ rpd' = [status |-> un.status, err |-> un.err]
    /\ UNCHANGED <<nodeVars, cacheVars, partVars, bn, pn>>

----------------------------------------------------------------------------
(* _parse_nodes_info *)

\* The text of a node dump is a sequence of atoms whose concatenation it is:
\* "\n", "=" and the sentinel "######" are atoms of their own, a key is one
\* atom, and a value is a sequence of one-character strings.

\* the pieces of s between the separators that start at the positions of cuts
\* and are width atoms long
SplitCuts(s, cuts, width) ==
    LET n == Cardinality(cuts)
        Cut(k) == CHOOSE c \in cuts : Cardinality({d \in cuts : d < c}) = k - 1
    IN  [k \in 1..(n + 1) |->
            SubSeq(s, IF k = 1 THEN 1 ELSE Cut(k - 1) + width,
                      IF k = n + 1 THEN Len(s) ELSE Cut(k) - 1)]

\* s.split(sep) for a separator of one atom
SplitAt(s, sep) == SplitCuts(s, {i \in 1..Len(s) : s[i] = sep}, 1)

\* slurm_node_info.split("######\n"), line 437
SplitSentinel(s) ==
    SplitCuts(s, {i \in 1..(Len(s) - 1) : s[i] = "######" /\ s[i + 1] = "\n"}, 2)

\* node.splitlines(), line 440: no line after a final line break, none for ""
splitlines(s) ==
    LET parts == SplitAt(s, "\n")
    IN  IF parts[Len(parts)] = <<>> THEN SubSeq(parts, 1, Len(parts) - 1) ELSE parts

\* lines 424-433
map_slurm_key_to_arg ==
    [NodeName |-> "name", NodeAddr |-> "nodeaddr", NodeHostName |-> "nodehostname",
     State |-> "state", Partitions |-> "partitions", Reason |-> "reason",
     SlurmdStartTime |-> "slurmdstarttime", LastBusyTime |-> "lastbusytime"]

SlurmKeys == DOMAIN map_slurm_key_to_arg
SlurmArgs == {map_slurm_key_to_arg[k] : k \in SlurmKeys}

\* line 435
date_fields == {"SlurmdStartTime", "LastBusyTime"}

\* the values of line 445
NONE_TEXT == <<"N", "o", "n", "e">>
UNKNOWN_TEXT == <<"U", "n", "k", "n", "o", "w", "n">>

DigitChars == {"0", "1", "2", "3", "4", "5", "6", "7", "8", "9"}
DigitVal(c) == CHOOSE v \in 0..9 : ToString(v) = c

IsDigits(s) == Len(s) > 0 /\ \A i \in 1..Len(s) : s[i] \in DigitChars

RECURSIVE Num(_)
\* int(s) of a string of digits
Num(s) == IF Len(s) = 0 THEN 0 ELSE 10 * Num(SubSeq(s, 1, Len(s) - 1)) + DigitVal(s[Len(s)])

\* datetime.strptime(value, "%Y-%m-%dT%H:%M:%S"), line 446, on the zero-padded
\* texts scontrol prints: the naive date and time the digits give, ValueError
\* for any other text
strptime(value) ==
    LET shaped == /\ Len(value) = 19
                  /\ value[5] = "-" /\ value[8] = "-" /\ value[11] = "T"
                  /\ value[14] = ":" /\ value[17] = ":"
                  /\ \A i \in (1..19) \ {5, 8, 11, 14, 17} : value[i] \in DigitChars
        dt == [year |-> Num(SubSeq(value, 1, 4)), month |-> Num(SubSeq(value, 6, 7)),
               day |-> Num(SubSeq(value, 9, 10)), hour |-> Num(SubSeq(value, 12, 13)),
               minute |-> Num(SubSeq(value, 15, 16)), second |-> Num(SubSeq(value, 18, 19))]
    IN  IF shaped /\ dt.month \in 1..12 /\ dt.day \in 1..31 /\ dt.hour \in 0..23
           /\ dt.minute \in 0..59 /\ dt.second \in 0..59
        THEN [raised |-> FALSE, val |-> dt]
        ELSE [raised |-> TRUE, val |-> <<>>]

DaysInMonth(year, month) ==
    IF month = 2
    THEN (IF year % 4 = 0 /\ (year % 100 # 0 \/ year % 400 = 0) THEN 29 ELSE 28)
    ELSE IF month \in {4, 6, 9, 11} THEN 30 ELSE 31

\* the day before and the day after a date
DayBefore(dt) ==
    IF dt.day > 1 THEN [dt EXCEPT !.day = @ - 1]
    ELSE IF dt.month > 1
         THEN [dt EXCEPT !.month = @ - 1, !.day = DaysInMonth(dt.year, dt.month - 1)]
         ELSE [dt EXCEPT !.year = @ - 1, !.month = 12, !.day = 31]

DayAfter(dt) ==
    IF dt.day < DaysInMonth(dt.year, dt.month) THEN [dt EXCEPT !.day = @ + 1]
    ELSE IF dt.month < 12 THEN [dt EXCEPT !.month = @ + 1, !.day = 1]
         ELSE [dt EXCEPT !.year = @ + 1, !.month = 1, !.day = 1]

\* a UTC-aware datetime
UtcDatetime(dt) == [kind |-> "datetime", val |-> dt, tz |-> "UTC"]

\* replace(tzinfo=timezone.utc): the digits are kept and called UTC
astimezone_replace(dt, utcoffset) == UtcDatetime(dt)

\* naive.astimezone(tz=timezone.utc), line 446: a naive datetime is taken as
\* local time, utcoffset being the hours the local zone is ahead of UTC
astimezone(dt, utcoffset) ==
    LET h == dt.hour - utcoffset
    IN  IF h < 0 THEN UtcDatetime([DayBefore(dt) EXCEPT !.hour = h + 24])
        ELSE IF h > 23 THEN UtcDatetime([DayAfter(dt) EXCEPT !.hour = h - 24])
        ELSE UtcDatetime([dt EXCEPT !.hour = h])

\* slurm_resources.parse_nodename, by the format of line 121:
\* {queue_name}-{st/dy}-{instancetype}-{number}
parse_nodename(nodename) ==
    LET parts == SplitAt(nodename, "-")
        valid == /\ Len(parts) = 4
                 /\ Len(parts[1]) > 0 /\ Len(parts[3]) > 0
                 /\ parts[2] \in {<<"s", "t">>, <<"d", "y">>}
                 /\ IsDigits(parts[4])
    IN  IF valid THEN [raised |-> FALSE, node_type |-> parts[2]]
        ELSE [raised |-> TRUE, node_type |-> <<>>]

\* is_static_node, lines 117-124: [raised, val]
is_static_node(nodename) ==
    LET parsed == parse_nodename(nodename)
    IN  [raised |-> parsed.raised, val |-> parsed.node_type = <<"s", "t">>]

\* a keyword argument no line has set
Missing == [kind |-> "missing", val |-> <<>>]

NoKwargs == [a \in SlurmArgs |-> Missing]

RECURSIVE ParseLines(_, _, _, _)
\* the loop of lines 442-449 from the i-th line on: [raised, err, kwargs]
ParseLines(lines, i, kwargs, utcoffset) ==
    IF i > Len(lines) THEN [raised |-> FALSE, err |-> "none", kwargs |-> kwargs]
    ELSE
        LET parts == SplitAt(lines[i], "=")
            key == parts[1]
            text == parts[2]
            isdate == Len(key) = 1 /\ key[1] \in date_fields
            parsed == strptime(text)
            value == IF ~isdate THEN Str(text)
                     ELSE IF text \in {NONE_TEXT, UNKNOWN_TEXT} THEN None
                     ELSE astimezone(parsed.val, utcoffset)
        IN  IF Len(parts) # 2
            THEN [raised |-> TRUE, err |-> "ValueError", kwargs |-> kwargs]
            ELSE IF isdate /\ text \notin {NONE_TEXT, UNKNOWN_TEXT} /\ parsed.raised
            THEN [raised |-> TRUE, err |-> "ValueError", kwargs |-> kwargs]
            ELSE IF ~(Len(key) = 1 /\ key[1] \in SlurmKeys)
            THEN [raised |-> TRUE, err |-> "KeyError", kwargs |-> kwargs]
            ELSE ParseLines(lines, i + 1,
                            [kwargs EXCEPT ![map_slurm_key_to_arg[key[1]]] = value],
                            utcoffset)

\* the node built from kwargs: StaticNode(**kwargs) or DynamicNode(**kwargs)
Node(type, kwargs) == [type |-> type, kwargs |-> kwargs]

\* AppendNode without the except clause: an invalid name raises
AppendNode_raise(slurm_nodes, kwargs) ==
    LET static == is_static_node(kwargs["name"].val)
    IN  IF kwargs["name"] = Missing
        THEN [raised |-> TRUE, err |-> "KeyError", val |-> slurm_nodes]
        ELSE IF static.raised
        THEN [raised |-> TRUE, err |-> "InvalidNodenameError", val |-> slurm_nodes]
        ELSE [raised |-> FALSE, err |-> "none",
              val |-> Append(slurm_nodes,
                             Node(IF static.val THEN "StaticNode" ELSE "DynamicNode", kwargs))]

\* lines 451-459: the node of a record is appended, a record with an invalid
\* name is ignored with a warning
AppendNode(slurm_nodes, kwargs) ==
    LET static == is_static_node(kwargs["name"].val)
    IN  IF kwargs["name"] = Missing
        THEN [raised |-> TRUE, err |-> "KeyError", val |-> slurm_nodes]
        ELSE IF static.raised
        THEN [raised |-> FALSE, err |-> "none", val |-> slurm_nodes]
        ELSE [raised |-> FALSE, err |-> "none",
              val |-> Append(slurm_nodes,
                             Node(IF static.val THEN "StaticNode" ELSE "DynamicNode", kwargs))]

RECURSIVE ParseRecords(_, _, _, _)
\* the loop of lines 439-459 from the i-th record on: [raised, err, val]
ParseRecords(node_info, i, slurm_nodes, utcoffset) ==
    IF i > Len(node_info) THEN [raised |-> FALSE, err |-> "none", val |-> slurm_nodes]
    ELSE
        LET lines == splitlines(node_info[i])
            r == ParseLines(lines, 1, NoKwargs, utcoffset)
            appended == AppendNode(slurm_nodes, r.kwargs)
        IN  IF r.raised THEN [raised |-> TRUE, err |-> r.err, val |-> <<>>]
            ELSE IF lines = <<>> THEN ParseRecords(node_info, i + 1, slurm_nodes, utcoffset)
            ELSE IF appended.raised THEN [raised |-> TRUE, err |-> appended.err, val |-> <<>>]
            ELSE ParseRecords(node_info, i + 1, appended.val, utcoffset)

\* _parse_nodes_info, lines 388-461, in a process whose local zone is utcoffset
\* hours ahead of UTC
parse_nodes_info(slurm_node_info, utcoffset) ==
    ParseRecords(SplitSentinel(slurm_node_info), 1, <<>>, utcoffset)

NoParse == [status |-> "none"]

\* one line of a dump: Key=text and a line break
DumpLine(key, text) == <<key, "=">> \o text \o <<"\n">>

TwoDigits(n) == <<ToString(n \div 10), ToString(n % 10)>>

\* the text scontrol prints for a time of January 2023
TimeText(day, hour) ==
    <<"2", "0", "2", "3", "-", "0", "1", "-">> \o TwoDigits(day) \o <<"T">>
    \o TwoDigits(hour) \o <<":", "5", "7", ":", "1", "5">>

\* node names: a static node, a dynamic node, and two names outside the
\* naming format; mode is the provisioning mode the name holds, if any
StaticName == [mode |-> "st", text |-> <<"q", "-", "s", "t", "-", "c", "-", "1">>]
DynamicName == [mode |-> "dy", text |-> <<"q", "-", "d", "y", "-", "c", "-", "2">>]
OtherModeName == [mode |-> "none", text |-> <<"q", "-", "x", "x", "-", "c", "-", "3">>]
PlainName == [mode |-> "none", text |-> <<"b", "a", "d">>]

NoField == [kind |-> "none", val |-> <<>>]

\* what the scheduler holds about a node: its name, and the two times and the
\* reason, each absent or with the text scontrol prints
NodeRecord(name, start, busy, reason) ==
    [name |-> name, addr |-> <<"1", ".", "2">>, state |-> <<"I", "D", "L", "E">>,
     partitions |-> <<"q">>, start |-> start, busy |-> busy, reason |-> reason]

PlainReason == Str(<<"a", " ", "b">>)
ReasonWithEquals == Str(<<"a", "=", "b">>)

NodeRecords ==
    {NodeRecord(StaticName, Str(TimeText(26, 9)), Str(UNKNOWN_TEXT), PlainReason),
     NodeRecord(StaticName, Str(TimeText(31, 23)), NoField, NoField),
     NodeRecord(StaticName, NoField, NoField, ReasonWithEquals),
     NodeRecord(DynamicName, Str(NONE_TEXT), Str(TimeText(1, 0)), NoField),
     NodeRecord(DynamicName, Str(TimeText(26, 9)), Str(TimeText(26, 9)), PlainReason),
     NodeRecord(OtherModeName, Str(TimeText(26, 9)), Str(UNKNOWN_TEXT), PlainReason),
     NodeRecord(PlainName, Str(NONE_TEXT), Str(TimeText(1, 0)), NoField),
     NodeRecord(PlainName, NoField, NoField, NoField)}

OptionalLine(key, field) == IF field.kind = "none" THEN <<>> ELSE DumpLine(key, field.val)

\* the text of one record after the awk and grep of lines 63-67, as in the
\* sample of lines 394-422
RecordText(r) ==
    DumpLine("NodeName", r.name.text) \o DumpLine("NodeAddr", r.addr)
    \o DumpLine("NodeHostName", r.name.text) \o DumpLine("State", r.state)
    \o DumpLine("Partitions", r.partitions)
    \o OptionalLine("SlurmdStartTime", r.start) \o OptionalLine("LastBusyTime", r.busy)
    \o OptionalLine("Reason", r.reason)
    \o <<"######", "\n">>

\* the text of a dump of the records
DumpText(records) == Concat([i \in 1..Len(records) |-> RecordText(records[i])])

\* the hours the local zone of the process may be ahead of UTC
UtcOffsets == {-1, 0, 1}

InitQueries ==
    /\ rpd = IdleResume
    /\ pn = NoParse

InitNodes ==
    /\ top = "none"
    /\ args = NoArgs
    /\ cmds = <<>>
    /\ un = IdleFrame
    /\ spd = IdlePowerDown

Init ==
    /\ InitNodes
    /\ InitCache
    /\ source = [kind |-> "missing", val |-> <<>>]
    /\ InitPartitions
    /\ bn = NoBatch
    /\ InitQueries

Next ==
    \/ Call_update_nodes
    \/ Call_set_nodes_power_down
    \/ Call_set_nodes_idle
    \/ Call_set_nodes_idle_again
    \/ update_nodes_loop
    \/ retry_set_nodes_power_down

Spec == Init /\ [][Next]_vars

InitCacheSpec ==
    /\ InitNodes
    /\ InitCache
    /\ source \in Sources
    /\ InitPartitions
    /\ bn = NoBatch
    /\ InitQueries

InitPartitionsSpec ==
    /\ InitNodes
    /\ InitCache
    /\ source \in PartitionSources
    /\ InitPartitions
    /\ bn = NoBatch
    /\ InitQueries

NextPartitions ==
    \/ Call_update_partitions
    \/ update_partitions_loop
    \/ Call_update_all_partitions
    \/ update_all_partitions_loop
    \/ update_all_partitions_powered_down
    \/ update_all_partitions_update
    \/ update_all_partitions_return
    \/ update_nodes_loop
    \/ retry_set_nodes_power_down

SpecPartitions == InitPartitionsSpec /\ [][NextPartitions]_vars

\* the tokens of the batcher's arguments: a range, a range with a comma
\* inside its brackets, a plain name
BatchTokens == {Token(1, TRUE), <<"n", "[", "1", ",", "2", "]">>, Token(2, FALSE)}

BatchNodeInputs ==
    {List(l) : l \in SeqsUpTo(BatchTokens, MaxTokens)}
    \cup {Str(Join(l, ",")) : l \in SeqsUpTo(BatchTokens, MaxTokens)}

BatchAddrInputs == {None} \cup {List(TokList(n, 0, TRUE)) : n \in 0..MaxTokens}

BatchHostnameInputs == {None} \cup {List(TokList(n, 0, TRUE)) : n \in {1, MaxTokens}}

\* a call of _batch_node_info is about to be made with any arguments
InitBatchSpec ==
    /\ InitNodes
    /\ InitCache
    /\ source = [kind |-> "missing", val |-> <<>>]
    /\ InitPartitions
    /\ \E nodenames \in BatchNodeInputs, nodeaddrs \in BatchAddrInputs,
          nodehostnames \in BatchHostnameInputs, batch_size \in 1..MaxBatchSize :
        bn = [status |-> "called", nodenames |-> nodenames, nodeaddrs |-> nodeaddrs,
              nodehostnames |-> nodehostnames, batch_size |-> batch_size,
              out |-> [raised |-> FALSE, batches |-> <<>>]]
    /\ InitQueries

\* _batch_node_info runs, lines 225-247
Call_batch_node_info ==
    /\ bn.status = "called"
    /\ bn' = [bn EXCEPT !.status = "done",
                        !.out = batch_node_info(bn.nodenames, bn.nodeaddrs,
                                                bn.nodehostnames, bn.batch_size)]
    /\ UNCHANGED <<nodeVars, cacheVars, partVars, queryVars>>

NextBatch == Call_batch_node_info

SpecBatch == InitBatchSpec /\ [][NextBatch]_vars

InitResumeSpec ==
    /\ InitNodes
    /\ InitCache
    /\ source \in PartitionSources
    /\ InitPartitions
    /\ bn = NoBatch
    /\ InitQueries

NextResume ==
    \/ Call_resume_powering_down_nodes
    \/ update_nodes_loop
    \/ resume_powering_down_nodes_return

SpecResume == InitResumeSpec /\ [][NextResume]_vars

\* a call of _parse_nodes_info is about to be made on the dump of any records
InitParseSpec ==
    /\ InitNodes
    /\ InitCache
    /\ source = [kind |-> "missing", val |-> <<>>]
    /\ InitPartitions
    /\ bn = NoBatch
    /\ rpd = IdleResume
    /\ \E records \in SeqsUpTo(NodeRecords, MaxRecords), utcoffset \in UtcOffsets :
        pn = [status |-> "called", records |-> records,
              slurm_node_info |-> DumpText(records), utcoffset |-> utcoffset,
              out |-> [raised |-> FALSE, err |-> "none", val |-> <<>>]]

\* _parse_nodes_info runs, lines 388-461
Call_parse_nodes_info ==
    /\ pn.status = "called"
    /\ pn' = [pn EXCEPT !.status = "done",
                        !.out = parse_nodes_info(pn.slurm_node_info, pn.utcoffset)]
    /\ UNCHANGED <<nodeVars, cacheVars, partVars, bn, rpd>>

NextParse == Call_parse_nodes_info

SpecParse == InitParseSpec /\ [][NextParse]_vars

NextCache ==
    \/ Call_get_partition_nodelist_mapping
    \/ Call_get_partitions
    \/ Call_reset

SpecCache == InitCacheSpec /\ [][NextCache]_vars

----------------------------------------------------------------------------
(* Claims about update_nodes and set_nodes_power_down *)

InUpdateNodes == top = "update_nodes"

\* a running update_nodes has a batch to process
UpdateNodesCanStep == un.next \in 1..Len(un.batches)

\* a running set_nodes_power_down waits for an attempt that is running or over
PowerDownCanStep ==
    /\ un.caller = "set_nodes_power_down"
    /\ un.status # "idle"
    /\ un.status = "running" => UpdateNodesCanStep

LastCmd == cmds[Len(cmds)]

FailedCmds == {i \in 1..Len(cmds) : ~cmds[i].ok}

\* C1 as stated: with raise_on_error the first failing batch's error
\* propagates and the commands of all later batches are still attempted.
C1_RemainingBatchesAttempted ==
    (InUpdateNodes /\ args.raise_on_error
        /\ un.status = "raised" /\ un.err = "CommandExecutionError")
    => Len(cmds) = Len(un.batches)

\* C1 amended: with raise_on_error the first failing command's error
\* propagates at once: the failed command is the last command of the call, the
\* call has raised the command error at that batch, and no later batch's
\* command is attempted.
C1_FirstFailureStopsTheCall ==
    (InUpdateNodes /\ args.raise_on_error) =>
        /\ \A i \in FailedCmds :
            /\ i = Len(cmds)
            /\ un.status = "raised"
            /\ un.err = "CommandExecutionError"
            /\ un.next = i
        /\ un.err = "CommandExecutionError" => FailedCmds = {Len(cmds)}

C1_Witness ==
    /\ InUpdateNodes /\ args.raise_on_error
    /\ un.status = "raised" /\ un.err = "CommandExecutionError"
    /\ Len(un.batches) = 3
    /\ Len(cmds) = 2

\* C2: without raise_on_error one command is executed per batch, in the order
\* of the batches and one after the other; a failed command never raises, the
\* batches after it are executed, and the call returns once every batch has
\* had its command.
C2_FailuresSwallowedInOrder ==
    (InUpdateNodes /\ ~args.raise_on_error) =>
        /\ Len(cmds) <= Len(un.batches)
        /\ \A i \in 1..Len(cmds) :
            /\ cmds[i].batch = i
            /\ cmds[i].nodename = un.batches[i].nodenames
        /\ un.err # "CommandExecutionError"
        /\ un.status = "running" => (Len(cmds) = un.next - 1 /\ UpdateNodesCanStep)
        /\ un.status = "returned" => Len(cmds) = Len(un.batches)
        /\ un.status = "raised" => Len(cmds) < Len(un.batches) \/ un.batches = <<>>

C2_Witness ==
    /\ InUpdateNodes /\ ~args.raise_on_error
    /\ un.status = "returned"
    /\ Len(cmds) = 3
    /\ ~cmds[2].ok

\* C4 as stated: a supplied address or hostname list whose token count differs
\* from the node list's makes the call raise the alignment error with no
\* command executed, for every pair of lengths.
C4_MismatchRaises ==
    (InUpdateNodes
        /\ \/ Truthy(args.nodeaddrs)
              /\ Len(Tokens(args.nodeaddrs)) # Len(Tokens(args.nodes))
           \/ Truthy(args.nodehostnames)
              /\ Len(Tokens(args.nodehostnames)) # Len(Tokens(args.nodes)))
    => (un.status = "raised" /\ un.err = "AlignmentError" /\ cmds = <<>>)

FragmentValid(x) == Truthy(x) => validate_subprocess_argument(x.val)

\* C5 as stated: whichever fragment fails the injection check, the state, the
\* reason or the expression of any batch, no command has been executed.
C5_NoCommandBeforeValidation ==
    (InUpdateNodes /\ un.status = "raised" /\ un.err = "InjectionRisk")
    => cmds = <<>>

\* C5 amended: every fragment is validated before the command that holds it
\* runs.  A state or reason that fails the check raises with no command
\* executed; a batch expression that fails it raises before the command of that
\* batch and of every later batch, the commands of the earlier batches having
\* been executed; no executed command holds a fragment that fails the check.
C5_ValidatedBeforeItsCommand ==
    InUpdateNodes =>
        /\ \A i \in 1..Len(cmds) :
            /\ FragmentValid(cmds[i].state) /\ FragmentValid(cmds[i].reason)
            /\ FragmentValid(cmds[i].nodename)
            /\ FragmentValid(cmds[i].nodeaddr) /\ FragmentValid(cmds[i].nodehostname)
            /\ cmds[i].nodeaddr = un.batches[i].addrs \/ ~Truthy(un.batches[i].addrs)
        /\ (~FragmentValid(args.state) \/ ~FragmentValid(args.reason)) =>
            (un.status = "raised" /\ cmds = <<>>)
        /\ (un.status = "raised" /\ un.err = "InjectionRisk"
                /\ FragmentValid(args.state) /\ FragmentValid(args.reason)) =>
            /\ Len(cmds) = un.next - 1
            /\ ~BatchValid(un.batches[un.next])
        /\ un.status = "returned" =>
            \A i \in 1..Len(un.batches) : BatchValid(un.batches[i])

C5_Witness ==
    /\ InUpdateNodes
    /\ un.status = "raised" /\ un.err = "InjectionRisk"
    /\ Len(cmds) = 2

InPowerDown == top = "set_nodes_power_down"

\* the arguments of set_nodes_power_down pass the injection check, so that an
\* attempt can only fail because a command fails
PowerDownArgsValid ==
    /\ FragmentValid(args.reason)
    /\ \A i \in 1..Len(Tokens(args.nodes)) :
        validate_subprocess_argument(Tokens(args.nodes)[i])

\* C6: set_nodes_power_down makes at most 3 attempts; it raises only after 3
\* failed attempts, with the error of the third, and when the command failed on
\* every attempt exactly 3 commands have failed; it returns as soon as an
\* attempt succeeds, each earlier attempt having failed.
C6_AtMostThreeAttempts ==
    InPowerDown =>
        /\ spd.attempt \in 1..3
        /\ Cardinality(FailedCmds) <= spd.attempt
        /\ spd.status = "raised" =>
            /\ spd.attempt = 3
            /\ un.status = "raised" /\ spd.err = un.err
            /\ PowerDownArgsValid =>
                (Cardinality(FailedCmds) = 3 /\ ~LastCmd.ok)
        /\ spd.status = "returned" =>
            /\ un.status = "returned"
            /\ Cardinality(FailedCmds) = spd.attempt - 1
            /\ cmds # <<>> => LastCmd.ok
        /\ spd.status = "running" => PowerDownCanStep

C6_Witness ==
    /\ InPowerDown
    /\ spd.status = "raised"
    /\ Cardinality(FailedCmds) = 3
    /\ Len(cmds) > 3

----------------------------------------------------------------------------
(* Claims about PartitionNodelistMapping *)

\* C9 as stated, for a file that holds a mapping, whatever the mapping is:
\* between two reset() the file is read on the first accessor call and never
\* again.
C9_ReadOnFirstCallOnly ==
    source.kind = "json" => reads = (IF calls = 0 THEN 0 ELSE 1)

\* C10: the cached mapping is empty or the whole content of the file; a load
\* of a missing or malformed file raises to the caller of the accessor and
\* leaves the cache empty, so no accessor returns in that case, and an accessor
\* that returns gives the whole content of the file (its keys for
\* get_partitions).
C10_EmptyOrFullyLoaded ==
    /\ mapping = <<>> \/ (source.kind = "json" /\ mapping = source.val)
    /\ ret.status = "raised" => (source.kind # "json" /\ mapping = <<>>)
    /\ (source.kind # "json" /\ calls > 0) => ret.status = "raised"
    /\ ret.status = "returned" =>
        /\ source.kind = "json"
        /\ mapping = source.val
        /\ ret.acc = "get_partition_nodelist_mapping" => ret.val = source.val
        /\ ret.acc = "get_partitions" => ret.val = Keys(source.val)

C10_Witness ==
    /\ source.kind = "malformed"
    /\ calls > 1
    /\ ret.status = "raised"
    /\ mapping = <<>>

----------------------------------------------------------------------------
(* Claims about update_partitions and update_all_partitions *)

InUpdateAll == top = "update_all_partitions"

\* the update_partition commands of the call, and the partitions they name
PartitionCmds == SelectSeq(cmds, LAMBDA c : c.cmd = "update_partition")
PartitionsOf(cs) == [i \in 1..Len(cs) |-> cs[i].partition]

\* the queries of get_partitions_info
QueryCmds == SelectSeq(cmds, LAMBDA c : c.cmd \in {"show_partitions", "sinfo"})

\* the partitions update_all_partitions targets: those the partition dump
\* shows whose state is not the target state
Targeted ==
    LET owned == IF source.kind = "json" THEN Keys(source.val) ELSE <<>>
        shown == SelectSeq(args.sched, LAMBDA p : GrepFilter(owned, p.name))
        differ == SelectSeq(shown, LAMBDA p : p.state # args.state)
    IN  [i \in 1..Len(differ) |-> differ[i].name]

AllOk(cs) == \A i \in 1..Len(cs) : cs[i].ok

\* a running update_partitions has a partition to process
UpdatePartitionsCanStep == up.next \in 1..Len(up.partitions)

\* a running update_all_partitions is in its loop, or waits for a call that
\* is itself running or over
UpdateAllCanStep ==
    \/ uap.pc = "loop"
    \/ /\ uap.pc = "power_down"
       /\ spd.caller = "update_all_partitions"
       /\ spd.status = "running" => PowerDownCanStep
       /\ spd.status # "idle"
    \/ /\ uap.pc = "update"
       /\ up.caller = "update_all_partitions"
       /\ up.status = "running" => UpdatePartitionsCanStep
       /\ up.status # "idle"

\* C7: update_all_partitions never raises; it returns True only if reading the
\* partitions, comparing the states, every power down and the update of every
\* targeted partition succeeded; it returns False when the update of a
\* targeted partition failed, and when any step raised.
C7_FalseOnAnyFailure ==
    InUpdateAll =>
        /\ uap.status \in {"running", "returned"}
        /\ (uap.status = "returned" /\ uap.result) =>
            /\ source.kind = "json"
            /\ AllOk(QueryCmds)
            /\ spd.status # "raised"
            /\ up.status = "returned"
            /\ AllOk(PartitionCmds)
            /\ PartitionsOf(PartitionCmds) = Targeted
            /\ Targeted # <<>> => ~PartitionStatusRaises(args.state)
        /\ (uap.status = "returned" /\ ~AllOk(PartitionCmds)) => ~uap.result
        /\ (uap.status = "returned"
                /\ (spd.status = "raised" \/ up.status = "raised" \/ ~AllOk(QueryCmds)))
            => ~uap.result
        /\ uap.status = "running" => UpdateAllCanStep

C7_Witness ==
    /\ InUpdateAll
    /\ args.reset_node_addrs_hostname
    /\ uap.status = "returned" /\ ~uap.result
    /\ Len(PartitionCmds) = 2
    /\ PartitionCmds[1].ok /\ ~PartitionCmds[2].ok

InUpdatePartitions == top = "update_partitions"

\* C8 as stated: no exception propagates out of update_partitions, for any
\* partition names and any state value.
C8_NeverRaises == InUpdatePartitions => up.status # "raised"

\* C8 amended: a state that fails the injection check raises out of
\* update_partitions before any partition is processed.  For every other
\* state no exception propagates: each partition is validated and executed on
\* its own, a partition whose validation or command fails is left out of the
\* returned list, the partitions after it are still processed, and the
\* returned list is the succeeded partitions in input order.
C8_RaisesOnlyOnUnsafeState ==
    InUpdatePartitions =>
        /\ up.status = "raised" <=> ~validate_subprocess_argument(args.state)
        /\ up.status = "raised" =>
            (up.err = "InjectionRisk" /\ cmds = <<>> /\ up.succeeded = <<>>)
        /\ up.status # "raised" =>
            /\ PartitionsOf(cmds)
                = SelectSeq(SubSeq(args.partitions, 1, up.next - 1),
                            validate_subprocess_argument)
            /\ up.succeeded = PartitionsOf(SelectSeq(cmds, LAMBDA c : c.ok))
            /\ up.status = "returned" <=> up.next = Len(args.partitions) + 1
            /\ up.status = "running" => UpdatePartitionsCanStep

C8_Witness ==
    /\ InUpdatePartitions
    /\ up.status = "returned"
    /\ Len(args.partitions) = 3
    /\ ~validate_subprocess_argument(args.partitions[1])
    /\ Len(cmds) = 2
    /\ ~cmds[1].ok /\ cmds[2].ok
    /\ up.succeeded = <<args.partitions[3]>>

----------------------------------------------------------------------------
(* Claims about the batcher *)

RECURSIVE TopSplitFrom(_, _, _, _)
TopSplitFrom(s, i, depth, cur) ==
    IF i > Len(s) THEN <<cur>>
    ELSE IF s[i] = "," /\ depth = 0
         THEN <<cur>> \o TopSplitFrom(s, i + 1, 0, <<>>)
         ELSE TopSplitFrom(s, i + 1,
                           IF s[i] = "[" THEN depth + 1
                           ELSE IF s[i] = "]" /\ depth > 0 THEN depth - 1
                           ELSE depth,
                           Append(cur, s[i]))

\* the tokens of an expression: its parts between the commas that are not
\* inside brackets
TopLevelTokens(s) == TopSplitFrom(s, 1, 0, <<>>)

BatchDone == bn.status = "done" /\ ~bn.out.raised

\* the token sequence of the node argument of the call
NodeTokens == Tokens(bn.nodenames)

\* each token of the node argument is one token of the expression it is in
EachIsOneToken == \A i \in 1..Len(NodeTokens) : TopLevelTokens(NodeTokens[i]) = <<NodeTokens[i]>>

\* the node expressions of the batches, and the tokens each holds
BatchExprs == [g \in 1..Len(bn.out.batches) |-> bn.out.batches[g].nodenames.val]
BatchTokenLists == [g \in 1..Len(BatchExprs) |-> TopLevelTokens(BatchExprs[g])]

\* C3: N tokens and batch size B give ceil(N/B) batches (none for N = 0), each
\* of at least 1 and at most B tokens, and the tokens of the batches in order
\* are the original token sequence; joined again, the batches are the original
\* expression.
C3_BatchesPartitionTheTokens ==
    BatchDone =>
        LET N == Len(NodeTokens)
            B == bn.batch_size
        IN  /\ Len(bn.out.batches) = (N + B - 1) \div B
            /\ N = 0 => bn.out.batches = <<>>
            /\ Join(BatchExprs, ",") = Join(NodeTokens, ",")
            /\ bn.nodenames.kind = "str" => Join(BatchExprs, ",") = bn.nodenames.val
            /\ EachIsOneToken =>
                /\ \A g \in 1..Len(BatchTokenLists) : Len(BatchTokenLists[g]) \in 1..B
                /\ Concat(BatchTokenLists) = NodeTokens

C3_Witness ==
    /\ BatchDone
    /\ EachIsOneToken
    /\ bn.batch_size = 2
    /\ Len(NodeTokens) = 3
    /\ NodeTokens[3] = <<"n", "[", "1", ",", "2", "]">>
    /\ Len(bn.out.batches) = 2

\* the batches of a token sequence
BatchesOf(toks, B) ==
    LET groups == grouper(toks, B)
    IN  [g \in 1..Len(groups) |-> Join(groups[g], ",")]

\* the nesting depth of brackets before position i of s
RECURSIVE Depth(_, _)
Depth(s, i) ==
    IF i <= 1 THEN 0
    ELSE LET d == Depth(s, i - 1)
         IN  IF s[i - 1] = "[" THEN d + 1
             ELSE IF s[i - 1] = "]" /\ d > 0 THEN d - 1
             ELSE d

\* the commas of s outside brackets, and those that follow a closing bracket
TopLevelCommas(s) == {i \in 1..Len(s) : s[i] = "," /\ Depth(s, i) = 0}
CommasAfterBracket(s) == {i \in 1..Len(s) : s[i] = "," /\ i > 1 /\ s[i - 1] = "]"}

\* the pieces of s between the positions of cuts, in order
Pieces(s, cuts) ==
    LET Before(i) == {c \in cuts : c < i}
        Start(k) == IF k = 1 THEN 1
                    ELSE 1 + CHOOSE c \in cuts : Cardinality(Before(c)) = k - 2
        End(k) == IF k = Cardinality(cuts) + 1 THEN Len(s)
                  ELSE (CHOOSE c \in cuts : Cardinality(Before(c)) = k - 1) - 1
    IN  [k \in 1..(Cardinality(cuts) + 1) |-> SubSeq(s, Start(k), End(k))]

\* bn.out.batches are the batches of the string's pieces between the cuts
BatchedAt(cuts) ==
    BatchExprs = BatchesOf(Pieces(bn.nodenames.val, cuts), bn.batch_size)

StrBatchDone == BatchDone /\ bn.nodenames.kind = "str"

\* C11 as stated: a str node argument is split at exactly the commas that are
\* not inside brackets, so the batches are those of its top-level tokens,
\* whether or not a token ends with a bracket.
C11_SplitAtEveryTopLevelComma ==
    StrBatchDone => BatchedAt(TopLevelCommas(bn.nodenames.val))

\* C11 amended: a str node argument is split at exactly the commas that
\* directly follow a closing bracket.  No comma inside brackets splits; a comma
\* outside brackets splits only when the token before it ends with a bracket,
\* so that "n[1,2],n[1]" gives the tokens "n[1,2]" and "n[1]", a string of K
\* bracket-ended tokens gives K tokens, and plain names joined by commas stay
\* one token.
C11_SplitAfterClosingBracket ==
    StrBatchDone =>
        LET s == bn.nodenames.val
        IN  /\ BatchedAt(CommasAfterBracket(s))
            /\ CommasAfterBracket(s) \subseteq TopLevelCommas(s)
            /\ (\A i \in TopLevelCommas(s) : i > 1 /\ s[i - 1] = "]") =>
                    BatchedAt(TopLevelCommas(s))
            /\ CommasAfterBracket(s) = {} => Len(bn.out.batches) = 1

C11_Witness ==
    /\ StrBatchDone
    /\ bn.batch_size = 1
    /\ bn.nodenames.val = Join(<<<<"n", "[", "1", ",", "2", "]">>, Token(2, FALSE), Token(2, FALSE)>>, ",")
    /\ BatchExprs = <<<<"n", "[", "1", ",", "2", "]">>, Join(<<Token(2, FALSE), Token(2, FALSE)>>, ",")>>

----------------------------------------------------------------------------
(* Claims about set_nodes_idle *)

InSetNodesIdle == top = "set_nodes_idle"

\* the node argument and the reason pass the injection check
IdleArgsValid ==
    /\ FragmentValid(args.reason)
    /\ \A i \in 1..Len(Tokens(args.nodes)) :
        validate_subprocess_argument(Tokens(args.nodes)[i])

\* the commands of the current call of set_nodes_idle
IdleCmds == SubSeq(cmds, args.before + 1, Len(cmds))

\* C12: set_nodes_idle never raises because a resume command is rejected, with
\* or without reset_node_addrs_hostname, on the first call and on a second call
\* with the same arguments: with arguments that pass the injection check the
\* call does not raise at all, every batch gets its resume command in order
\* whatever the outcome of the commands before it, and the call returns once
\* each batch has had its command; with the reset each command sets the
\* address and the hostname to its (non-empty) node expression, without it
\* neither.
C12_RejectedResumeNeverRaises ==
    InSetNodesIdle =>
        /\ un.err # "CommandExecutionError"
        /\ IdleArgsValid => un.status # "raised"
        /\ Len(IdleCmds) <= Len(un.batches)
        /\ \A i \in 1..Len(IdleCmds) :
            /\ IdleCmds[i].state = RESUME
            /\ IdleCmds[i].batch = i
            /\ IdleCmds[i].nodename = un.batches[i].nodenames
            /\ IdleCmds[i].nodeaddr =
                (IF args.reset_node_addrs_hostname /\ Truthy(IdleCmds[i].nodename)
                 THEN IdleCmds[i].nodename ELSE None)
            /\ IdleCmds[i].nodehostname = IdleCmds[i].nodeaddr
        /\ un.status = "running" => (Len(IdleCmds) = un.next - 1 /\ UpdateNodesCanStep)
        /\ un.status = "returned" => Len(IdleCmds) = Len(un.batches)
        /\ args.call = 2 => args.before = Len(un.batches)

C12_Witness ==
    /\ InSetNodesIdle
    /\ args.reset_node_addrs_hostname
    /\ args.call = 2
    /\ un.status = "returned"
    /\ Len(un.batches) = 3
    /\ Len(cmds) = 6
    /\ \A i \in 1..Len(cmds) : ~cmds[i].ok

----------------------------------------------------------------------------
(* Claims about resume_powering_down_nodes *)

InResumePoweringDown == top = "resume_powering_down_nodes"

UpdateCmds == SelectSeq(cmds, LAMBDA c : c.cmd = "update_nodes")

\* the query for the powering-down nodes fails: the mapping file cannot be
\* loaded, or the sinfo command fails
QueryFailed == source.kind # "json" \/ ~args.ok

LinesValid == \A i \in 1..Len(args.lines) : validate_subprocess_argument(args.lines[i])

\* a running resume_powering_down_nodes waits for an update_nodes that is
\* running or over
ResumeCanStep ==
    /\ un.caller = "resume_powering_down_nodes"
    /\ un.status # "idle"
    /\ un.status = "running" => UpdateNodesCanStep

\* C13 as stated: resume_powering_down_nodes never raises, whether the query
\* fails, returns no node, or a resume command fails.
C13_NeverRaises == InResumePoweringDown => rpd.status # "raised"

\* C13 amended: a failing query raises to the caller of
\* resume_powering_down_nodes and no update command is issued.  When the
\* query succeeds a failed resume command never raises: every batch gets its
\* command and the call returns normally, unless a listed node name fails the
\* injection check; when the query returns no node, no update command is
\* issued and the call returns.
C13_RaisesOnlyOnFailedQuery ==
    InResumePoweringDown =>
        /\ QueryFailed =>
            /\ rpd.status = "raised"
            /\ rpd.err \in {"OwnershipSourceError", "CommandExecutionError"}
            /\ UpdateCmds = <<>>
            /\ un = IdleFrame
        /\ ~QueryFailed =>
            /\ rpd.err # "CommandExecutionError"
            /\ rpd.status = "raised" => (rpd.err = "InjectionRisk" /\ ~LinesValid)
            /\ args.lines = <<>> => (UpdateCmds = <<>> /\ un.status = "returned")
            /\ \A i \in 1..Len(UpdateCmds) :
                /\ UpdateCmds[i].state = RESUME
                /\ UpdateCmds[i].nodename = un.batches[i].nodenames
            /\ rpd.status = "returned" =>
                /\ Len(UpdateCmds) = Len(un.batches)
                /\ Join(args.lines, ",") = Join([i \in 1..Len(UpdateCmds) |-> UpdateCmds[i].nodename.val], ",")
            /\ rpd.status = "running" => ResumeCanStep

C13_Witness ==
    /\ InResumePoweringDown
    /\ rpd.status = "returned"
    /\ Len(UpdateCmds) = 3
    /\ \A i \in 1..3 : ~UpdateCmds[i].ok

----------------------------------------------------------------------------
(* Claims about _parse_nodes_info *)

ParseDone == pn.status = "done"
Parsed == ParseDone /\ ~pn.out.raised

\* the records whose name holds a provisioning mode, in the order of the dump
NamedRecords == SelectSeq(pn.records, LAMBDA r : r.name.mode \in {"st", "dy"})

HasEquals(field) == field.kind # "none" /\ \E i \in 1..Len(field.val) : field.val[i] = "="

\* no value of the dump holds a "="
NoEqualsInValues == \A i \in 1..Len(pn.records) : ~HasEquals(pn.records[i].reason)

\* C14: a record whose node name is outside the naming format is dropped
\* without raising and the other records are still returned: the result holds
\* one node per record with a valid name, in the order of the records, a
\* StaticNode for the mode "st" and a DynamicNode for the mode "dy".
C14_InvalidNamesDropped ==
    ParseDone =>
        /\ NoEqualsInValues => ~pn.out.raised
        /\ pn.out.raised => pn.out.err = "ValueError"
        /\ ~pn.out.raised =>
            /\ Len(pn.out.val) = Len(NamedRecords)
            /\ \A i \in 1..Len(NamedRecords) :
                /\ pn.out.val[i].kwargs["name"] = Str(NamedRecords[i].name.text)
                /\ pn.out.val[i].type =
                    (IF NamedRecords[i].name.mode = "st" THEN "StaticNode" ELSE "DynamicNode")

C14_Witness ==
    /\ Parsed
    /\ Len(pn.records) = 3
    /\ pn.records[1].name = StaticName
    /\ pn.records[2].name = OtherModeName
    /\ pn.records[3].name = DynamicName
    /\ Len(pn.out.val) = 2
    /\ pn.out.val[1].type = "StaticNode" /\ pn.out.val[2].type = "DynamicNode"

\* the value an optional line of the dump gives a keyword argument as it is
CarriedAsIs(field) == IF field.kind = "none" THEN Missing ELSE Str(field.val)

\* C16 as stated: for every line of a record whose key is no timestamp key the
\* field of the parsed node is the text after the first "=" of the line, and
\* parsing does not fail, also when that text holds a "=".
C16_FieldsCarriedAsIs ==
    ParseDone =>
        /\ ~pn.out.raised
        /\ \A i \in 1..Len(NamedRecords) :
            LET r == NamedRecords[i]
                kwargs == pn.out.val[i].kwargs
            IN  /\ kwargs["name"] = Str(r.name.text)
                /\ kwargs["nodeaddr"] = Str(r.addr)
                /\ kwargs["nodehostname"] = Str(r.name.text)
                /\ kwargs["state"] = Str(r.state)
                /\ kwargs["partitions"] = Str(r.partitions)
                /\ kwargs["reason"] = CarriedAsIs(r.reason)

\* the texts of the times of January 2023, each with the date and time its
\* digits say
KnownTimes ==
    {[text |-> TimeText(d, h),
      digits |-> [year |-> 2023, month |-> 1, day |-> d, hour |-> h,
                  minute |-> 57, second |-> 15]] : d \in 1..31, h \in 0..23}

\* the date and time a text of TimeText holds, read as UTC
SameDigits(text) == UtcDatetime((CHOOSE k \in KnownTimes : k.text = text).digits)

\* the UTC date and time of a text of TimeText read as local time, utcoffset
\* hours ahead of UTC, counted in hours from the start of January 2023
LocalToUtc(text, utcoffset) ==
    LET local == SameDigits(text).val
        hours == (local.day - 1) * 24 + local.hour - utcoffset
    IN  IF hours < 0
        THEN UtcDatetime([local EXCEPT !.year = 2022, !.month = 12,
                                       !.day = 31 - ((-hours - 1) \div 24),
                                       !.hour = hours % 24])
        ELSE IF hours >= 31 * 24
        THEN UtcDatetime([local EXCEPT !.month = 2, !.day = (hours \div 24) - 30,
                                       !.hour = hours % 24])
        ELSE UtcDatetime([local EXCEPT !.day = (hours \div 24) + 1, !.hour = hours % 24])

\* the fields of the parsed nodes are Expected of the texts of their records
TimesAre(Expected(_)) ==
    LET named == NamedRecords
    IN  \A i \in 1..Len(named) :
            /\ pn.out.val[i].kwargs["slurmdstarttime"] = Expected(named[i].start)
            /\ pn.out.val[i].kwargs["lastbusytime"] = Expected(named[i].busy)

\* C17 as stated: "None" and "Unknown" give an absent value, and a time gives
\* the UTC timestamp with the digits of the text, whatever the local zone.
C17_SameDigitsInAnyZone ==
    Parsed =>
        TimesAre(LAMBDA field :
            IF field.kind = "none" THEN Missing
            ELSE IF field.val \in {NONE_TEXT, UNKNOWN_TEXT} THEN None
            ELSE SameDigits(field.val))

\* C17 amended: "None" and "Unknown" give an absent value, and a time is read
\* as local time of the process and converted to UTC: the timestamp is the
\* text's date and time less the local zone's offset, which has the digits of
\* the text only when that offset is zero; no time of the fixed format makes
\* the parsing fail.
C17_LocalTimeConvertedToUtc ==
    /\ (ParseDone /\ NoEqualsInValues) => ~pn.out.raised
    /\ Parsed =>
        /\ TimesAre(LAMBDA field :
                IF field.kind = "none" THEN Missing
                ELSE IF field.val \in {NONE_TEXT, UNKNOWN_TEXT} THEN None
                ELSE LocalToUtc(field.val, pn.utcoffset))
        /\ pn.utcoffset = 0 =>
            \A i \in 1..Len(NamedRecords) :
                NamedRecords[i].start = Str(TimeText(26, 9)) =>
                    pn.out.val[i].kwargs["slurmdstarttime"]
                        = UtcDatetime([year |-> 2023, month |-> 1, day |-> 26, hour |-> 9,
                                       minute |-> 57, second |-> 15])

C17_Witness ==
    /\ Parsed
    /\ pn.utcoffset = 1
    /\ Len(pn.out.val) = 2
    /\ pn.out.val[1].kwargs["slurmdstarttime"] = None
    /\ pn.out.val[1].kwargs["lastbusytime"]
        = UtcDatetime([year |-> 2022, month |-> 12, day |-> 31, hour |-> 23,
                       minute |-> 57, second |-> 15])
    /\ pn.out.val[2].kwargs["slurmdstarttime"]
        = UtcDatetime([year |-> 2023, month |-> 1, day |-> 26, hour |-> 8,
                       minute |-> 57, second |-> 15])
    /\ pn.out.val[2].kwargs["lastbusytime"] = None

----------------------------------------------------------------------------
(* Claims about get_partitions_info *)

\* the keys of the ownership mapping
Owned == IF source.kind = "json" THEN {source.val[i][1] : i \in 1..Len(source.val)} ELSE {}

\* C15 as stated: every partition get_partitions_info returns is a key of the
\* ownership mapping, and no other partition is queried for its nodes,
\* whatever the scheduler reports and whatever the mapping holds.
C15_OnlyOwnedPartitions ==
    InUpdateAll =>
        /\ \A i \in 1..Len(uap.partitions) : uap.partitions[i].name \in Owned
        /\ \A i \in 1..Len(cmds) : cmds[i].cmd = "sinfo" => cmds[i].partition \in Owned

----------------------------------------------------------------------------
(* Claims about the alignment of the batches *)

\* a list is supplied when it is given and not empty
Supplied(x) == Truthy(x)

\* the expression of the tokens of x that batch g of the call covers
BatchOf(x, g) ==
    LET toks == Tokens(x)
        lo == (g - 1) * UpdateBatchSize + 1
        hi == Min(g * UpdateBatchSize, Len(toks))
    IN  Str(Join(SubSeq(toks, lo, hi), ","))

\* each supplied list has as many tokens as the node list
SameTokenCounts ==
    /\ Supplied(args.nodeaddrs) => Len(Tokens(args.nodeaddrs)) = Len(Tokens(args.nodes))
    /\ Supplied(args.nodehostnames) => Len(Tokens(args.nodehostnames)) = Len(Tokens(args.nodes))

\* C18: when the supplied address and hostname lists have as many tokens as
\* the node list, batch g of each list covers the same index range as batch g
\* of the node list, so every command holds the addresses and hostnames of its
\* own nodes in the same order; the batches together cover every token once;
\* a list that is not supplied is absent from every command.
C18_BatchesAligned ==
    (InUpdateNodes /\ SameTokenCounts) =>
        /\ un.err # "AlignmentError"
        /\ un.status # "raised" =>
            Len(un.batches) = (Len(Tokens(args.nodes)) + UpdateBatchSize - 1) \div UpdateBatchSize
        /\ \A i \in 1..Len(cmds) :
            LET g == cmds[i].batch
            IN  /\ g = i
                /\ cmds[i].nodename = BatchOf(args.nodes, g)
                /\ cmds[i].nodeaddr =
                    (IF Supplied(args.nodeaddrs) THEN BatchOf(args.nodeaddrs, g) ELSE None)
                /\ cmds[i].nodehostname =
                    (IF Supplied(args.nodehostnames) THEN BatchOf(args.nodehostnames, g) ELSE None)
        /\ un.status = "returned" => Len(cmds) = Len(un.batches)

C18_Witness ==
    /\ InUpdateNodes
    /\ un.status = "returned"
    /\ Len(Tokens(args.nodes)) = 5
    /\ Supplied(args.nodeaddrs) /\ Supplied(args.nodehostnames)
    /\ Len(cmds) = 3
    /\ cmds[3].nodeaddr = Str(Token(5, TRUE))
    /\ cmds[3].nodehostname = Str(Token(5, TRUE))

----------------------------------------------------------------------------
(* Claims about the power down of update_all_partitions *)

PowerDownCmdIndices == {i \in 1..Len(cmds) : cmds[i].cmd = "update_nodes"}
PartitionCmdIndices == {i \in 1..Len(cmds) : cmds[i].cmd = "update_partition"}

\* the partitions the dump shows, as the scheduler holds them
Shown ==
    LET owned == IF source.kind = "json" THEN Keys(source.val) ELSE <<>>
    IN  SelectSeq(args.sched, LAMBDA p : GrepFilter(owned, p.name))

TargetedNames == {Targeted[i] : i \in 1..Len(Targeted)}

\* the node expressions of the batches of a partition's nodes
NodeBatches(name) == BatchesOf(re_split(PartitionNodes(name)), UpdateBatchSize)

\* before command j a whole attempt to power down the nodes of the partition
\* has succeeded: one command per batch, in order, each resetting the address
\* and the hostname to the node expression
PoweredDownBefore(name, j) ==
    LET batches == NodeBatches(name)
    IN  \E a \in 1..j :
            \A g \in 1..Len(batches) :
                /\ a + g - 1 < j
                /\ LET c == cmds[a + g - 1]
                   IN  /\ c.cmd = "update_nodes"
                       /\ c.ok
                       /\ c.state = POWER_DOWN_FORCE
                       /\ c.nodename = Str(batches[g])
                       /\ c.nodeaddr = c.nodename
                       /\ c.nodehostname = c.nodename

\* the first update command of a partition, Len(cmds) + 1 when there is none
FirstPartitionCmd ==
    IF PartitionCmdIndices = {} THEN Len(cmds) + 1
    ELSE CHOOSE j \in PartitionCmdIndices : \A k \in PartitionCmdIndices : j <= k

\* C19: with reset_node_addrs_hostname the power down of the nodes of every
\* partition whose state differs from the target comes before the update
\* command of that partition, and before the update command of any partition;
\* a partition already in the target state gets no power down and no update
\* command.  Without reset_node_addrs_hostname there is no power down.
C19_PowerDownBeforeUpdate ==
    InUpdateAll =>
        LET targeted == TargetedNames
            first == FirstPartitionCmd
            exprs == UNION {{Str(NodeBatches(name)[g]) : g \in 1..Len(NodeBatches(name))} :
                              name \in targeted}
        IN  /\ \A i \in PowerDownCmdIndices :
                /\ i < first
                /\ args.reset_node_addrs_hostname
                /\ cmds[i].nodename \in exprs
            /\ \A j \in PartitionCmdIndices : cmds[j].partition \in targeted
            /\ (args.reset_node_addrs_hostname /\ PartitionCmdIndices # {}) =>
                \A name \in targeted : PoweredDownBefore(name, first)

C19_Witness ==
    /\ InUpdateAll
    /\ args.reset_node_addrs_hostname
    /\ uap.status = "returned" /\ uap.result
    /\ Len(Shown) = 2
    /\ Shown[1].state = args.state
    /\ Shown[2].name = P10
    /\ Targeted = <<P10>>
    /\ PartitionsOf(PartitionCmds) = <<P10>>
    /\ Cardinality(PowerDownCmdIndices) > Len(NodeBatches(P10))

\* C20: with reset_node_addrs_hostname, when the power down of the nodes of a
\* targeted partition still fails after its retries, no update command is
\* issued for any partition, those powered down earlier in the call included,
\* and the call returns False.
C20_FailedPowerDownStopsTheCall ==
    (InUpdateAll /\ spd.status = "raised") =>
        /\ args.reset_node_addrs_hostname
        /\ spd.attempt = stop_max_attempt_number
        /\ PartitionCmdIndices = {}
        /\ up = IdlePartitions
        /\ uap.status = "running" => (uap.pc = "power_down" /\ UpdateAllCanStep)
        /\ uap.status = "returned" => (~uap.result /\ uap.pc = "done")
        /\ uap.status \in {"running", "returned"}

C20_Witness ==
    /\ InUpdateAll
    /\ spd.status = "raised"
    /\ uap.status = "returned" /\ ~uap.result
    /\ uap.next = 2
    /\ uap.partition_to_update = <<P1>>
    /\ PoweredDownBefore(P1, Len(cmds))
    /\ PartitionCmdIndices = {}

----------------------------------------------------------------------------
(* Claims about the attempts of set_nodes_power_down *)

\* the number of batches of the node set
M == Len(un.batches)

\* the command after command i of an attempt that goes on: the next batch
GoesOn(i) ==
    /\ cmds[i].ok
    /\ cmds[i].batch < M
    /\ BatchValid(un.batches[cmds[i].batch + 1])

\* C21: each attempt of set_nodes_power_down starts again from the first batch
\* and stops at its first failing batch.  The first command of the call is
\* that of batch 1; after a command that succeeded comes the command of the
\* next batch of the same attempt; after a command that failed, or a batch that
\* fails the injection check, the next command is that of batch 1 again, so the
\* batches that succeeded before are issued again and the batches after the
\* failing one are not issued in that attempt; every command of a batch holds
\* the same expressions in every attempt, and one call issues at most 3 * M
\* commands.
C21_EachAttemptRestarts ==
    InPowerDown =>
        /\ Len(cmds) <= 3 * M
        /\ cmds # <<>> => cmds[1].batch = 1
        /\ \A i \in 1..Len(cmds) :
            /\ cmds[i].batch \in 1..M
            /\ cmds[i].nodename = un.batches[cmds[i].batch].nodenames
            /\ i < Len(cmds) =>
                cmds[i + 1].batch = (IF GoesOn(i) THEN cmds[i].batch + 1 ELSE 1)
            /\ (cmds[i].ok /\ cmds[i].batch = M) =>
                (i = Len(cmds) /\ un.status = "returned")
        /\ \A g \in 1..M :
            Cardinality({i \in 1..Len(cmds) : cmds[i].batch = g}) <= spd.attempt
        /\ (un.status = "running" /\ cmds # <<>>) =>
            /\ GoesOn(Len(cmds)) => un.next = LastCmd.batch + 1
            /\ ~LastCmd.ok => un.next = 1
            /\ un.next \in {1, LastCmd.batch + 1}

C21_Witness ==
    /\ InPowerDown
    /\ spd.status = "returned"
    /\ M = 3
    /\ [i \in 1..Len(cmds) |-> cmds[i].batch] = <<1, 2, 1, 2, 3, 1, 2, 3>>
    /\ [i \in 1..Len(cmds) |-> cmds[i].ok]
        = <<TRUE, FALSE, TRUE, TRUE, FALSE, TRUE, TRUE, TRUE>>

====
